---------------------------- MODULE Spec2Model ----------------------------
(***************************************************************************)
(* The user service of the recipe/meal-planning backend                    *)
(* (FastAPI/app): the x-api-key guard, the five /api/users routes, the     *)
(* UserService operations behind them, and the tables of config/database.py *)
(* that reference users through foreign keys.                              *)
(*                                                                         *)
(* One step of the model is one HTTP request served from the dependency    *)
(* get_api_key to the response; the clock (datetime.now) and rows written  *)
(* to the dependent tables by direct database access are the environment.  *)
(* The lifespan of main.py opens and closes the database connection around *)
(* the requests.  Where two requests run at once, a step is one statement  *)
(* of create_user sent to the database.                                    *)
(***************************************************************************)
EXTENDS Integers, FiniteSets, TLC

VARIABLES
    API_KEY,                \* helpers/api_key_auth.py: os.getenv("API_KEY")
    users,                  \* table "users": id -> row
    next_id,                \* AUTO_INCREMENT counter of users.id
    now,                    \* the reading datetime.now() gives
    user_groups,            \* table "user_groups"
    recipes,                \* table "recipes"
    menus,                  \* table "menus"
    pantries_ingredients,   \* table "pantries_ingredients"
    notifications,          \* table "notifications"
    recipes_food_types,     \* table "recipes_food_types"
    recipes_ingredients,    \* table "recipes_ingredients"
    menus_recipes,          \* table "menus_recipes"
    menus_groups,           \* table "menus_groups"
    request,                \* the request served by the last step (Idle: none)
    response,               \* its outcome
    lifespan,               \* main.py lifespan: where the context manager stands
    connection,             \* config/database.py database: each thread's connection
    invoked,                \* the last connect()/close() and the state it met
    calls                   \* the calls of create_user under way, by worker thread

dependents == <<user_groups, recipes, menus, pantries_ingredients, notifications,
                recipes_food_types, recipes_ingredients, menus_recipes, menus_groups>>

storage == <<users, next_id, dependents>>

lifecycle == <<lifespan, connection, invoked>>

vars == <<API_KEY, storage, now, request, response, lifecycle, calls>>

----------------------------------------------------------------------------
(* Bounds *)

\* users.id values the AUTO_INCREMENT counter hands out
MaxId == 2

\* the clock reads 0..MaxTime, in half seconds
MaxTime == 1

\* rows the dependent tables hold in total
MaxRows == 3

\* path parameter user_id: every id that can be stored and one that never is
PathIds == 1..(MaxId + 1)

Times == 0..MaxTime

----------------------------------------------------------------------------
(* Values *)

\* Python's None, as the value of an absent header or an unset variable
None == "None"

\* x-api-key header values a client sends; None: no header
ApiKeyHeaders == {None, "secret", "wrong"}

\* values of the environment variable API_KEY; None: not set
ApiKeySettings == {None, "secret"}

\* request bodies (models/user.py User); ana and eve carry the same user_email
Ana == [id |-> 2, username |-> "ana", user_email |-> "ana@x", user_password |-> "pw-a",
        user_pfp |-> "a.png", user_created |-> 1, user_updated |-> 0]

Bob == [id |-> 1, username |-> "bob", user_email |-> "bob@x", user_password |-> "pw-b",
        user_pfp |-> "b.png", user_created |-> 2, user_updated |-> 0]

Eve == [id |-> 1, username |-> "eve", user_email |-> "ana@x", user_password |-> "pw-e",
        user_pfp |-> "e.png", user_created |-> 0, user_updated |-> 1]

User == {Ana, Bob, Eve}

GET_USERS == "GET /api/users/"

GET_USER == "GET /api/users/{user_id}"

POST_USER == "POST /api/users"

PUT_USER == "PUT /api/users/{user_id}"

DELETE_USER == "DELETE /api/users/{user_id}"

Routes == {GET_USERS, GET_USER, POST_USER, PUT_USER, DELETE_USER}

Idle == [route |-> "idle"]

\* a worker thread that runs no call
NoCall == [pc |-> "idle"]

\* the requests of each route: the header, and the path parameter and body it takes
Requests(route) ==
    CASE route = GET_USERS -> [route : {route}, api_key : ApiKeyHeaders]
      [] route = POST_USER -> [route : {route}, api_key : ApiKeyHeaders, user : User]
      [] route = PUT_USER ->
            [route : {route}, api_key : ApiKeyHeaders, user_id : PathIds, user : User]
      [] OTHER -> [route : {route}, api_key : ApiKeyHeaders, user_id : PathIds]

----------------------------------------------------------------------------
(* Outcomes of a request *)

\* the handler returned v: FastAPI answers 200 with v
Return(v) == [kind |-> "return", status_code |-> 200, value |-> v]

\* raise HTTPException(status_code, detail)
HTTPException(status_code, detail) ==
    [kind |-> "HTTPException", status_code |-> status_code, detail |-> detail]

\* an exception no handler catches: the server answers 500
Unhandled(exception) ==
    [kind |-> "unhandled", status_code |-> 500, exception |-> exception]

NotFoundPayload == [error |-> "User not found"]

DeletedPayload == [message |-> "User deleted successfully"]

UnauthorizedDetail == [status |-> FALSE, status_code |-> 403, message |-> "Unauthorized"]

----------------------------------------------------------------------------
(* helpers/api_key_auth.py *)

\* if api_key == API_KEY: return api_key; else raise HTTPException(403, ...)
get_api_key(api_key) ==
    IF api_key = API_KEY
        THEN Return(api_key)
        ELSE HTTPException(403, UnauthorizedDetail)

----------------------------------------------------------------------------
(* config/database.py: database = MySQLDatabase(...) *)

\* the route functions are plain def: FastAPI runs them on threads of a pool, while
\* lifespan runs on the thread of the event loop
Workers == {"worker-1", "worker-2"}

Threads == {"lifespan"} \cup Workers

\* requests served one after the other run on the same thread of the pool
FirstWorker == "worker-1"

\* MySQLDatabase is built with peewee's defaults thread_safe=True, autoconnect=True:
\* the state of the connection is kept per thread
is_closed(thread) == connection[thread] = "closed"

NotInvoked == [method |-> "none"]

\* connection.connect() on this thread
connect(thread) ==
    /\ connection' = [connection EXCEPT ![thread] = "open"]
    /\ invoked' = [method |-> "connect", thread |-> thread, closed |-> is_closed(thread)]

\* connection.close() on this thread
close(thread) ==
    /\ connection' = [connection EXCEPT ![thread] = "closed"]
    /\ invoked' = [method |-> "close", thread |-> thread, closed |-> is_closed(thread)]

\* autoconnect=True: a query on a thread whose connection is closed opens it first
autoconnect(thread) ==
    IF is_closed(thread) THEN connect(thread) ELSE UNCHANGED <<connection, invoked>>

----------------------------------------------------------------------------
(* config/database.py: the users table *)

\* the row a user record is stored as
Row(id, username, user_email, user_password, user_pfp, user_created, user_updated) ==
    [id |-> id, username |-> username, user_email |-> user_email,
     user_password |-> user_password, user_pfp |-> user_pfp,
     user_created |-> user_created, user_updated |-> user_updated]

\* DateTimeField: MySQL creates the column as DATETIME, without fractional seconds,
\* and rounds a written value to the nearest whole second.  A reading of the clock
\* counts half seconds: an odd one lies half a second past a whole second.
DATETIME(t) == t + (t % 2)

\* the row as the table keeps it
Stored(row) ==
    [row EXCEPT !.user_created = DATETIME(@), !.user_updated = DATETIME(@)]

\* a column declared without unique=True
UniqueEmailNone(id, user_email) == TRUE

\* an index that is checked when a row is inserted and not when one is updated
UniqueEmailOnInsert(id, user_email) ==
    id \notin DOMAIN users => \A j \in DOMAIN users : users[j].user_email # user_email

\* user_email = CharField(unique=True): no row other than id holds this email
UniqueEmail(id, user_email) ==
    \A j \in DOMAIN users \ {id} : users[j].user_email # user_email

\* None where Python gives it for a row
NoneRow == [none |-> TRUE]

\* UserModel.get_or_none(UserModel.user_email == user_email): a row found, or None
get_or_none(user_email) ==
    LET found == {k \in DOMAIN users : users[k].user_email = user_email}
    IN  IF found = {} THEN NoneRow ELSE users[CHOOSE k \in found : TRUE]

\* UserModel.get(UserModel.id == user_id): the row, or DoesNotExist raised
get(user_id) ==
    IF user_id \in DOMAIN users
        THEN [raised |-> FALSE, row |-> users[user_id]]
        ELSE [raised |-> TRUE, exception |-> "DoesNotExist"]

\* UserModel.get_by_id(user_id) is UserModel.get(primary key == user_id)
get_by_id(user_id) == get(user_id)

\* a table with the row of key id added or replaced
Put(table, id, row) ==
    [j \in DOMAIN table \cup {id} |-> IF j = id THEN row ELSE table[j]]

\* a delete that matches no row
RemoveNothing(table, id) == table

\* a delete without its WHERE clause
RemoveAll(table, id) == [j \in {} |-> table[j]]

\* a table without the row of key id
Remove(table, id) == [j \in DOMAIN table \ {id} |-> table[j]]

----------------------------------------------------------------------------
(* config/database.py: the tables that reference users *)

\* groups, food_types, ingredients and measurement_units: no operation of the
\* application changes them; each holds one row
GroupIds == {1}

FoodTypeIds == {1}

IngredientIds == {1}

UnitIds == {1}

\* RoleEnum
RoleEnum == {"admin", "member"}

\* a foreign key that is not enforced: the rows stay
CascadeNone(rows, fk, gone) == rows

\* ForeignKeyField(..., on_delete="CASCADE"): the rows whose parent is gone go too
Cascade(rows, fk, gone) == {r \in rows : r[fk] \notin gone}

\* the primary keys of the rows a cascade removes from a table
Gone(rows, fk, gone, pk) == {r[pk] : r \in {x \in rows : x[fk] \in gone}}

NumRows ==
    Cardinality(user_groups) + Cardinality(recipes) + Cardinality(menus)
    + Cardinality(pantries_ingredients) + Cardinality(notifications)
    + Cardinality(recipes_food_types) + Cardinality(recipes_ingredients)
    + Cardinality(menus_recipes) + Cardinality(menus_groups)

\* DELETE FROM users WHERE id = user_id, with the cascades the foreign keys declare
DeleteUserRow(user_id) ==
    LET goneRecipes == Gone(recipes, "user_id", {user_id}, "recipe_id")
        goneMenus == Gone(menus, "user_id", {user_id}, "menu_id")
    IN  /\ users' = Remove(users, user_id)
        /\ user_groups' = Cascade(user_groups, "user_id", {user_id})
        /\ recipes' = Cascade(recipes, "user_id", {user_id})
        /\ menus' = Cascade(menus, "user_id", {user_id})
        /\ pantries_ingredients' = Cascade(pantries_ingredients, "user_id", {user_id})
        /\ notifications' = Cascade(notifications, "user_id", {user_id})
        /\ recipes_food_types' = Cascade(recipes_food_types, "recipe_id", goneRecipes)
        /\ recipes_ingredients' = Cascade(recipes_ingredients, "recipe_id", goneRecipes)
        /\ menus_recipes' =
                Cascade(Cascade(menus_recipes, "menu_id", goneMenus), "recipe_id", goneRecipes)
        /\ menus_groups' = Cascade(menus_groups, "menu_id", goneMenus)

\* a table declared with primary_key = False has no key of its own: the engine
\* numbers its rows, and two rows may hold the same pair of foreign keys
RowId(rows) ==
    CHOOSE k \in 1..(Cardinality(rows) + 1) : k \notin {r.rowid : r \in rows}

\* AutoField(primary_key=True): a key no row of the table holds
AutoField(rows, pk) ==
    CHOOSE k \in 1..(Cardinality(rows) + 1) : k \notin {r[pk] : r \in rows}

\* the rows direct database access can add to the dependent tables: a foreign key
\* names a stored parent
NewUserGroups ==
    [rowid : {RowId(user_groups)}, user_id : DOMAIN users, group_id : GroupIds,
     rol : RoleEnum]

NewRecipes ==
    [recipe_id : {AutoField(recipes, "recipe_id")}, user_id : DOMAIN users]

NewMenus ==
    [menu_id : {AutoField(menus, "menu_id")}, user_id : DOMAIN users]

NewPantriesIngredients ==
    [pantries_ingredients_id : {AutoField(pantries_ingredients, "pantries_ingredients_id")},
     ingredient_id : IngredientIds, user_id : DOMAIN users]

NewNotifications ==
    [notification_id : {AutoField(notifications, "notification_id")},
     user_id : DOMAIN users]

NewRecipesFoodTypes ==
    [rowid : {RowId(recipes_food_types)}, recipe_id : {r.recipe_id : r \in recipes},
     food_type_id : FoodTypeIds]

NewRecipesIngredients ==
    [rowid : {RowId(recipes_ingredients)}, recipe_id : {r.recipe_id : r \in recipes},
     ingredient_id : IngredientIds, measurement_unit_id : UnitIds]

NewMenusRecipes ==
    [rowid : {RowId(menus_recipes)}, menu_id : {m.menu_id : m \in menus},
     recipe_id : {r.recipe_id : r \in recipes}]

NewMenusGroups ==
    [rowid : {RowId(menus_groups)}, menu_id : {m.menu_id : m \in menus},
     group_id : GroupIds]

----------------------------------------------------------------------------
(* services/user_service.py: each operation, from the call to its outcome *)

\* a select whose filter leaves out the first key
SelectUsersAfterFirst == {users[j] : j \in {k \in DOMAIN users : k > 1}}

\* UserModel.select().where(UserModel.id > 0).dicts()
SelectUsers == {users[j] : j \in {k \in DOMAIN users : k > 0}}

\* get_users: list(users)
get_users ==
    /\ response' = Return(SelectUsers)
    /\ UNCHANGED <<storage, now>>

\* get_user without its except branch
GetUserNotFoundRaises(user_id) ==
    IF get(user_id).raised THEN Unhandled(get(user_id).exception)
    ELSE Return(get(user_id).row)

\* what get_user(user_id) gives: user.__data__, or the payload of the except branch
GetUserOutcome(user_id) ==
    IF get(user_id).raised THEN Return(NotFoundPayload)
    ELSE Return(get(user_id).row)

\* a read that takes the row out of the table
GetUserAndRemove(user_id) ==
    /\ response' = GetUserOutcome(user_id)
    /\ users' = Remove(users, user_id)
    /\ UNCHANGED <<next_id, dependents, now>>

get_user(user_id) ==
    /\ response' = GetUserOutcome(user_id)
    /\ UNCHANGED <<storage, now>>

\* create_user without the lookup
EmailTakenNever(user_email) == FALSE

\* if existing_user: raise HTTPException(400, ...)
EmailTaken(user_email) == get_or_none(user_email) # NoneRow

\* the readings the second datetime.now() of a call can give after the first gave now
LaterReadings == {t \in Times : now <= t /\ t <= now + 1}

\* an insert that takes the key from the request body
NewUserSuppliedId(user, created, updated) ==
    Row(user.id, user.username, user.user_email, user.user_password, user.user_pfp,
        created, updated)

\* the row UserModel.create(...) inserts: the key comes from the counter, the two
\* timestamps from two readings of the clock
NewUser(user, created, updated) ==
    Row(next_id, user.username, user.user_email, user.user_password, user.user_pfp,
        created, updated)

\* raise HTTPException(status_code=400, detail="The email address is alredy in use.")
EmailInUse == HTTPException(400, "The email address is alredy in use.")

create_user(user) ==
    IF EmailTaken(user.user_email)
        THEN /\ response' = EmailInUse
             /\ UNCHANGED <<storage, now>>
        ELSE \E updated \in LaterReadings :
                LET new_user == NewUser(user, now, updated)
                IN  /\ next_id <= MaxId
                    /\ now' = updated
                    /\ UNCHANGED dependents
                    /\ IF UniqueEmail(new_user.id, new_user.user_email)
                          THEN /\ users' = Put(users, new_user.id, Stored(new_user))
                               /\ next_id' = next_id + 1
                               /\ response' = Return(new_user)
                          ELSE /\ response' = Unhandled("IntegrityError")
                               /\ UNCHANGED <<users, next_id>>

\* an update that leaves user_updated as it was
UpdatedKeepsStamp(existing_user, user) ==
    Row(existing_user.id, user.username, user.user_email, user.user_password,
        user.user_pfp, user.user_created, existing_user.user_updated)

\* an update that leaves user_password as it was
UpdatedKeepsPassword(existing_user, user) ==
    Row(existing_user.id, user.username, user.user_email, existing_user.user_password,
        user.user_pfp, user.user_created, now)

\* an update that takes the key from the request body as well
UpdatedWithBodyId(existing_user, user) ==
    Row(user.id, user.username, user.user_email, user.user_password,
        user.user_pfp, user.user_created, now)

\* the fields update_user assigns to the row it read
Updated(existing_user, user) ==
    Row(existing_user.id, user.username, user.user_email, user.user_password,
        user.user_pfp, user.user_created, now)

UpdatedPayload(row) == [message |-> "User successfully updated", user_data |-> row]

update_user(user_id, user) ==
    LET existing_user == get_by_id(user_id)
    IN  /\ UNCHANGED <<next_id, now, dependents>>
        /\ IF existing_user.raised
              THEN /\ response' = Unhandled(existing_user.exception)
                   /\ UNCHANGED users
              ELSE IF existing_user.row = NoneRow
              THEN /\ response' = HTTPException(404, "User not found.")
                   /\ UNCHANGED users
              ELSE LET row == Updated(existing_user.row, user)
                   IN  IF UniqueEmail(row.id, row.user_email)
                          THEN /\ users' = Put(users, row.id, Stored(row))
                               /\ response' = Return(UpdatedPayload(row))
                          ELSE /\ response' = Unhandled("IntegrityError")
                               /\ UNCHANGED users

delete_user(user_id) ==
    LET user == get(user_id)
    IN  /\ UNCHANGED <<next_id, now>>
        /\ IF user.raised
              THEN /\ response' = Return(NotFoundPayload)
                   /\ UNCHANGED <<users, dependents>>
              ELSE /\ DeleteUserRow(user.row.id)
                   /\ response' = Return(DeletedPayload)

----------------------------------------------------------------------------
(* main.py, routes/user_route.py: a request from the guard to the response *)

\* dependencies=[Depends(get_api_key)]: the route's function runs if the guard returns
Serve(req, Operation) ==
    /\ lifespan = "yield"
    /\ request' = req
    /\ UNCHANGED <<API_KEY, lifespan, calls>>
    /\ IF get_api_key(req.api_key).kind = "return"
          THEN Operation /\ autoconnect(FirstWorker)
          ELSE /\ response' = get_api_key(req.api_key)
               /\ UNCHANGED <<storage, now, connection, invoked>>

GetUsers(reqs) == \E req \in reqs : Serve(req, get_users)

GetUser(reqs) == \E req \in reqs : Serve(req, get_user(req.user_id))

CreateUser(reqs) == \E req \in reqs : Serve(req, create_user(req.user))

UpdateUser(reqs) == \E req \in reqs : Serve(req, update_user(req.user_id, req.user))

DeleteUser(reqs) == \E req \in reqs : Serve(req, delete_user(req.user_id))

----------------------------------------------------------------------------
(* The operations statement by statement: two requests run on two threads of the
   pool, each with a connection of its own, and the database takes their statements
   in any order *)

\* the first statement each operation sends to the database
FirstStatement(route) ==
    CASE route = GET_USERS -> "select"
      [] route = POST_USER -> "get_or_none"
      [] route = PUT_USER -> "get_by_id"
      [] OTHER -> "get"

\* the route's function is called: no statement sent, no row read, no outcome yet
Begun(req) ==
    [pc |-> FirstStatement(req.route), request |-> req, row |-> NoneRow,
     statements |-> 0, response |-> Idle]

\* the call has sent one more statement and goes on to the statement pc
Continue(call, pc, row) ==
    [call EXCEPT !.pc = pc, !.row = row, !.statements = @ + 1]

\* a call that stays where it is after its outcome
DoneStaysThere(call, outcome) ==
    [call EXCEPT !.response = outcome]

\* the call has ended with this outcome (return or raise)
Done(call, outcome) ==
    [call EXCEPT !.pc = "done", !.response = outcome]

\* the call has sent its last statement
Last(call, outcome) == Done(Continue(call, call.pc, call.row), outcome)

\* a request reaches its route's function on a thread that runs no call
Begin(reqs) ==
    \E worker \in Workers, req \in reqs :
        /\ lifespan = "yield"
        /\ calls[worker].pc \in {"idle", "done"}
        /\ calls' = [calls EXCEPT ![worker] =
                        IF get_api_key(req.api_key).kind = "return"
                            THEN Begun(req)
                            ELSE Done(Begun(req), get_api_key(req.api_key))]
        /\ UNCHANGED <<API_KEY, storage, now, request, response, lifecycle>>

\* POST /api/users reaches create_user
CreateUserBegin(reqs) == Begin(reqs)

\* users = UserModel.select().where(UserModel.id > 0).dicts(); return list(users)
GetUsersSelect ==
    \E worker \in Workers :
        /\ calls[worker].pc = "select"
        /\ autoconnect(worker)
        /\ calls' = [calls EXCEPT ![worker] = Last(@, Return(SelectUsers))]
        /\ UNCHANGED <<API_KEY, storage, now, request, response, lifespan>>

\* get_user: user = UserModel.get(...); return user.__data__, or the except branch
GetUserGet ==
    \E worker \in Workers :
        /\ calls[worker].pc = "get"
        /\ calls[worker].request.route = GET_USER
        /\ autoconnect(worker)
        /\ calls' = [calls EXCEPT ![worker] =
                        Last(@, GetUserOutcome(@.request.user_id))]
        /\ UNCHANGED <<API_KEY, storage, now, request, response, lifespan>>

\* existing_user = UserModel.get_or_none(...); if existing_user: raise ...
CreateUserLookup ==
    \E worker \in Workers :
        /\ calls[worker].pc = "get_or_none"
        /\ autoconnect(worker)
        /\ calls' = [calls EXCEPT ![worker] =
                        IF EmailTaken(@.request.user.user_email)
                            THEN Last(@, EmailInUse)
                            ELSE Continue(@, "create", NoneRow)]
        /\ UNCHANGED <<API_KEY, storage, now, request, response, lifespan>>

\* new_user = UserModel.create(...); return new_user.__data__
CreateUserInsert ==
    \E worker \in Workers, updated \in LaterReadings :
        LET new_user == NewUser(calls[worker].request.user, now, updated)
        IN  /\ calls[worker].pc = "create"
            /\ next_id <= MaxId
            /\ now' = updated
            /\ IF UniqueEmail(new_user.id, new_user.user_email)
                  THEN /\ users' = Put(users, new_user.id, Stored(new_user))
                       /\ next_id' = next_id + 1
                       /\ calls' = [calls EXCEPT ![worker] = Last(@, Return(new_user))]
                  ELSE /\ calls' =
                            [calls EXCEPT ![worker] = Last(@, Unhandled("IntegrityError"))]
                       /\ UNCHANGED <<users, next_id>>
            /\ UNCHANGED <<API_KEY, dependents, request, response, lifecycle>>

\* existing_user = UserModel.get_by_id(user_id); if not existing_user: raise ...
UpdateUserGet ==
    \E worker \in Workers :
        LET existing_user == get_by_id(calls[worker].request.user_id)
        IN  /\ calls[worker].pc = "get_by_id"
            /\ autoconnect(worker)
            /\ calls' = [calls EXCEPT ![worker] =
                            IF existing_user.raised
                                THEN Last(@, Unhandled(existing_user.exception))
                            ELSE IF existing_user.row = NoneRow
                                THEN Last(@, HTTPException(404, "User not found."))
                            ELSE Continue(@, "save", existing_user.row)]
            /\ UNCHANGED <<API_KEY, storage, now, request, response, lifespan>>

\* existing_user.save(): UPDATE users SET ... WHERE id = row.id; a statement that
\* matches no row writes nothing and raises nothing
Save(table, row) ==
    IF row.id \in DOMAIN table THEN Put(table, row.id, Stored(row)) ELSE table

\* the assignments to existing_user, existing_user.save() and the return
UpdateUserSave ==
    \E worker \in Workers :
        LET row == Updated(calls[worker].row, calls[worker].request.user)
        IN  /\ calls[worker].pc = "save"
            /\ IF row.id \in DOMAIN users => UniqueEmail(row.id, row.user_email)
                  THEN /\ users' = Save(users, row)
                       /\ calls' = [calls EXCEPT ![worker] =
                                        Last(@, Return(UpdatedPayload(row)))]
                  ELSE /\ calls' =
                            [calls EXCEPT ![worker] = Last(@, Unhandled("IntegrityError"))]
                       /\ UNCHANGED users
            /\ UNCHANGED <<API_KEY, next_id, dependents, now, request, response, lifecycle>>

\* delete_user: user = UserModel.get(...), or the except branch
DeleteUserGet ==
    \E worker \in Workers :
        LET user == get(calls[worker].request.user_id)
        IN  /\ calls[worker].pc = "get"
            /\ calls[worker].request.route = DELETE_USER
            /\ autoconnect(worker)
            /\ calls' = [calls EXCEPT ![worker] =
                            IF user.raised
                                THEN Last(@, Return(NotFoundPayload))
                                ELSE Continue(@, "delete_instance", user.row)]
            /\ UNCHANGED <<API_KEY, storage, now, request, response, lifespan>>

\* user.delete_instance(); return {"message": "User deleted successfully"}
DeleteUserDelete ==
    \E worker \in Workers :
        /\ calls[worker].pc = "delete_instance"
        /\ DeleteUserRow(calls[worker].row.id)
        /\ calls' = [calls EXCEPT ![worker] = Last(@, Return(DeletedPayload))]
        /\ UNCHANGED <<API_KEY, next_id, now, request, response, lifecycle>>

----------------------------------------------------------------------------
(* main.py: lifespan *)

\* if connection.is_closed(): connection.connect(); then the application runs
Startup ==
    /\ lifespan = "enter"
    /\ IF is_closed("lifespan")
          THEN connect("lifespan")
          ELSE UNCHANGED <<connection, invoked>>
    /\ lifespan' = "yield"
    /\ request' = Idle
    /\ response' = Idle
    /\ UNCHANGED <<API_KEY, storage, now, calls>>

\* how the application leaves the yield: it is shut down, or an exception is thrown
\* into the context manager
Exits == {"exit", "raise"}

\* finally: if not connection.is_closed(): connection.close()
Shutdown ==
    /\ lifespan = "yield"
    /\ IF ~is_closed("lifespan")
          THEN close("lifespan")
          ELSE UNCHANGED <<connection, invoked>>
    /\ lifespan' \in Exits
    /\ request' = Idle
    /\ response' = Idle
    /\ UNCHANGED <<API_KEY, storage, now, calls>>

----------------------------------------------------------------------------
(* The environment *)

\* time passes while no request is served
Tick ==
    /\ now < MaxTime
    /\ now' = now + 1
    /\ request' = Idle
    /\ response' = Idle
    /\ UNCHANGED <<API_KEY, storage, lifecycle, calls>>

\* direct database access adds rows to the dependent tables
Insert(ug, r, m, p, n, rft, ri, mr, mg) ==
    /\ NumRows < MaxRows
    /\ user_groups' = user_groups \cup ug
    /\ recipes' = recipes \cup r
    /\ menus' = menus \cup m
    /\ pantries_ingredients' = pantries_ingredients \cup p
    /\ notifications' = notifications \cup n
    /\ recipes_food_types' = recipes_food_types \cup rft
    /\ recipes_ingredients' = recipes_ingredients \cup ri
    /\ menus_recipes' = menus_recipes \cup mr
    /\ menus_groups' = menus_groups \cup mg
    /\ request' = Idle
    /\ response' = Idle
    /\ UNCHANGED <<API_KEY, users, next_id, now, lifecycle, calls>>

InsertUserGroup ==
    \E row \in NewUserGroups : Insert({row}, {}, {}, {}, {}, {}, {}, {}, {})

InsertRecipe ==
    \E row \in NewRecipes : Insert({}, {row}, {}, {}, {}, {}, {}, {}, {})

InsertMenu ==
    \E row \in NewMenus : Insert({}, {}, {row}, {}, {}, {}, {}, {}, {})

InsertPantriesIngredient ==
    \E row \in NewPantriesIngredients : Insert({}, {}, {}, {row}, {}, {}, {}, {}, {})

InsertNotification ==
    \E row \in NewNotifications : Insert({}, {}, {}, {}, {row}, {}, {}, {}, {})

InsertRecipeFoodType ==
    \E row \in NewRecipesFoodTypes : Insert({}, {}, {}, {}, {}, {row}, {}, {}, {})

InsertRecipeIngredient ==
    \E row \in NewRecipesIngredients : Insert({}, {}, {}, {}, {}, {}, {row}, {}, {})

InsertMenuRecipe ==
    \E row \in NewMenusRecipes : Insert({}, {}, {}, {}, {}, {}, {}, {row}, {})

InsertMenuGroup ==
    \E row \in NewMenusGroups : Insert({}, {}, {}, {}, {}, {}, {}, {}, {row})

----------------------------------------------------------------------------
(* Specifications *)

\* the application is started on empty tables, with API_KEY as the environment sets
\* it and no connection open
InitAt(settings, readings) ==
    /\ API_KEY \in settings
    /\ users = <<>>
    /\ next_id = 1
    /\ now \in readings
    /\ user_groups = {}
    /\ recipes = {}
    /\ menus = {}
    /\ pantries_ingredients = {}
    /\ notifications = {}
    /\ recipes_food_types = {}
    /\ recipes_ingredients = {}
    /\ menus_recipes = {}
    /\ menus_groups = {}
    /\ request = Idle
    /\ response = Idle
    /\ lifespan = "enter"
    /\ connection = [thread \in Threads |-> "closed"]
    /\ invoked = NotInvoked
    /\ calls = [worker \in Workers |-> NoCall]

Init == InitAt(ApiKeySettings, {0})

\* the user service behind the guard, under every header and every setting of API_KEY
Next ==
    \/ Startup
    \/ GetUsers(Requests(GET_USERS))
    \/ GetUser(Requests(GET_USER))
    \/ CreateUser(Requests(POST_USER))
    \/ UpdateUser(Requests(PUT_USER))
    \/ DeleteUser(Requests(DELETE_USER))
    \/ Tick

Spec == Init /\ [][Next]_vars

\* the same with the API key configured
InitConfigured == InitAt({"secret"}, {0})

SpecConfigured == InitConfigured /\ [][Next]_vars

\* the requests that carry the configured key and a body with an email of its own
Keyed(route) ==
    {req \in Requests(route) :
        /\ req.api_key = "secret"
        /\ req.route \in {POST_USER, PUT_USER} => req.user \in {Ana, Bob}}

\* the clock stands still here: the timestamps play no part in the cascade
InitDependents == InitAt({"secret"}, {MaxTime})

\* the user service over users that own rows of the dependent tables
NextDependents ==
    \/ Startup
    \/ CreateUser(Keyed(POST_USER))
    \/ DeleteUser(Keyed(DELETE_USER))
    \/ InsertUserGroup
    \/ InsertRecipe
    \/ InsertMenu
    \/ InsertPantriesIngredient
    \/ InsertNotification
    \/ InsertRecipeFoodType
    \/ InsertRecipeIngredient
    \/ InsertMenuRecipe
    \/ InsertMenuGroup

SpecDependents == InitDependents /\ [][NextDependents]_vars

InitLifespan == InitAt({"secret"}, {MaxTime})

\* the application from its start to its stop, serving requests in between
NextLifespan ==
    \/ Startup
    \/ GetUsers(Requests(GET_USERS))
    \/ GetUser(Requests(GET_USER))
    \/ CreateUser(Keyed(POST_USER))
    \/ DeleteUser(Requests(DELETE_USER))
    \/ Shutdown

SpecLifespan == InitLifespan /\ [][NextLifespan]_vars

InitConcurrent == InitAt({"secret"}, {MaxTime})

\* requests to create users that are served at the same time
NextConcurrent ==
    \/ Startup
    \/ CreateUserBegin(Keyed(POST_USER))
    \/ CreateUserLookup
    \/ CreateUserInsert

SpecConcurrent == InitConcurrent /\ [][NextConcurrent]_vars

\* requests of the five routes served at the same time
NextStatements ==
    \/ Startup
    \/ Begin(Keyed(GET_USERS) \cup Keyed(GET_USER) \cup Keyed(POST_USER)
                \cup Keyed(PUT_USER) \cup Keyed(DELETE_USER))
    \/ GetUsersSelect
    \/ GetUserGet
    \/ CreateUserLookup
    \/ CreateUserInsert
    \/ UpdateUserGet
    \/ UpdateUserSave
    \/ DeleteUserGet
    \/ DeleteUserDelete

SpecStatements == InitConcurrent /\ [][NextStatements]_vars

----------------------------------------------------------------------------
(* Properties *)

\* the last step served a request of this route and its function was called
Called(route) == request.route = route /\ request.api_key = API_KEY

\* the ids the counter has handed out that are stored no longer
DeletedIds == (1..(next_id - 1)) \ DOMAIN users

StoredEmails == {users[j].user_email : j \in DOMAIN users}

\* C1: create_user called with the user_email of a stored user fails with HTTP 400
\* and leaves every stored record as it was.
C1_DuplicateEmailRejected ==
    [][(Called(POST_USER)' /\ request'.user.user_email \in StoredEmails)
         => /\ response'.kind = "HTTPException"
            /\ response'.status_code = 400
            /\ UNCHANGED storage]_vars

\* a create was refused with 400 while its email is stored
C1_Witness ==
    /\ Called(POST_USER)
    /\ request.user.user_email \in StoredEmails
    /\ response.kind = "HTTPException"
    /\ response.status_code = 400

\* C2: update_user called with a user_id that is not stored fails with HTTP 404
\* 'User not found' and with no other fault, and storage is unchanged.
C2_UpdateMissingIs404 ==
    [][(Called(PUT_USER)' /\ request'.user_id \notin DOMAIN users)
         => /\ response'.kind = "HTTPException"
            /\ response'.status_code = 404
            /\ UNCHANGED storage]_vars

\* C3: a request to any of the five routes whose x-api-key header is absent or differs
\* from the server-side secret is answered 403 with the fixed body and runs no
\* operation, whatever API_KEY is set to, also when it is not set.
C3_UnauthorizedIs403 ==
    [][(request'.route \in Routes
            /\ (request'.api_key = None \/ request'.api_key # API_KEY))
         => /\ response' = HTTPException(403, UnauthorizedDetail)
            /\ UNCHANGED storage]_vars

\* C4: no two stored user records have the same user_email.
C4_EmailUnique ==
    \A i, j \in DOMAIN users : i # j => users[i].user_email # users[j].user_email

\* two users are stored and an update that would give one the other's email was refused
C4_Witness ==
    /\ Cardinality(DOMAIN users) = 2
    /\ Called(PUT_USER)
    /\ request.user_id \in DOMAIN users
    /\ \E j \in DOMAIN users \ {request.user_id} :
            users[j].user_email = request.user.user_email
    /\ response.kind = "unhandled"

\* C5: delete_user(id) called while id is stored returns the success message, and a
\* get_user(id) issued afterwards returns the payload {error: 'User not found'}.
C5_DeleteThenGet ==
    [][/\ \A id \in DOMAIN users :
            (Called(DELETE_USER)' /\ request'.user_id = id)
                => /\ response' = Return(DeletedPayload)
                   /\ GetUserOutcome(id)' = Return(NotFoundPayload)
       /\ (Called(GET_USER)' /\ request'.user_id \in DeletedIds)
            => response' = Return(NotFoundPayload)]_vars

\* a get_user of an id that was stored and has been deleted returned the payload
C5_Witness ==
    /\ Called(GET_USER)
    /\ request.user_id \in DeletedIds
    /\ response = Return(NotFoundPayload)

\* C6: get_user called with an id that is not stored returns the normal value
\* {error: 'User not found'}, with no exception and no error status, and leaves
\* storage unchanged.
C6_GetMissingReturnsPayload ==
    [][(Called(GET_USER)' /\ request'.user_id \notin DOMAIN users)
         => /\ response'.kind = "return"
            /\ response'.status_code = 200
            /\ response'.value = NotFoundPayload
            /\ UNCHANGED storage]_vars

\* a get_user of an id the counter never handed out returned the payload
C6_Witness ==
    /\ Called(GET_USER)
    /\ request.user_id >= next_id
    /\ DOMAIN users # {}
    /\ response.kind = "return"
    /\ response.value = NotFoundPayload

RecipeIds == {r.recipe_id : r \in recipes}

MenuIds == {m.menu_id : m \in menus}

\* C7: no stored foreign key points at a missing parent: once delete_user has removed
\* a user, its user_groups, recipes, menus, pantries_ingredients and notifications
\* rows are gone, and with them the rows that referenced those recipes and menus.
C7_NoDanglingForeignKey ==
    /\ \A r \in user_groups : r.user_id \in DOMAIN users /\ r.group_id \in GroupIds
    /\ \A r \in recipes : r.user_id \in DOMAIN users
    /\ \A r \in menus : r.user_id \in DOMAIN users
    /\ \A r \in pantries_ingredients :
            r.user_id \in DOMAIN users /\ r.ingredient_id \in IngredientIds
    /\ \A r \in notifications : r.user_id \in DOMAIN users
    /\ \A r \in recipes_food_types :
            r.recipe_id \in RecipeIds /\ r.food_type_id \in FoodTypeIds
    /\ \A r \in recipes_ingredients :
            /\ r.recipe_id \in RecipeIds
            /\ r.ingredient_id \in IngredientIds
            /\ r.measurement_unit_id \in UnitIds
    /\ \A r \in menus_recipes : r.menu_id \in MenuIds /\ r.recipe_id \in RecipeIds
    /\ \A r \in menus_groups : r.menu_id \in MenuIds /\ r.group_id \in GroupIds

\* a delete has just removed a user and the rows that referenced it: the first row of
\* user_groups is gone (nothing but a cascade removes rows) and the second, of the
\* user that is still stored, is the only row left of MaxRows
C7_Witness ==
    /\ Called(DELETE_USER)
    /\ response = Return(DeletedPayload)
    /\ DeletedIds # {}
    /\ \E r \in user_groups : r.rowid = 2 /\ r.user_id \in DOMAIN users
    /\ \A r \in user_groups : r.rowid # 1
    /\ NumRows = 1

\* C8: after a successful create_user the user_created and user_updated of the
\* returned and stored record are equal to each other and to the time of the call.
C8_CreatedEqualsUpdated ==
    [][(Called(POST_USER)' /\ response'.kind = "return")
         => /\ response'.value.user_created = response'.value.user_updated
            /\ response'.value.user_created = now
            /\ users'[response'.value.id] = response'.value]_vars

\* a successful update_user of the stored user id
Updates(id) ==
    /\ Called(PUT_USER)'
    /\ request'.user_id = id
    /\ response'.kind = "return"

\* C9 as stated: after a successful update_user the stored user_updated is strictly
\* greater than the value stored before the call.
C9_UpdatedStrictlyIncreases ==
    [][\A id \in DOMAIN users :
            Updates(id) => users'[id].user_updated > users[id].user_updated]_vars

\* C9 as amended: after a successful update_user the stored user_updated is the
\* reading of the clock at the call as the column keeps it, which is not less than
\* the value stored before.
C9_UpdatedIsNow ==
    [][\A id \in DOMAIN users :
            Updates(id) => /\ users'[id].user_updated = DATETIME(now)
                           /\ users'[id].user_updated >= users[id].user_updated]_vars

\* an update has stored a user_updated later than the user_updated the body carried
\* and later than the user's creation
C9_Witness ==
    /\ Called(PUT_USER)
    /\ response.kind = "return"
    /\ users[request.user_id].user_updated = DATETIME(now)
    /\ users[request.user_id].user_updated > DATETIME(request.user.user_updated)
    /\ now = MaxTime

\* the record update_user(id, data) is to leave stored, as stated
OverwrittenExactly(id, data) ==
    /\ users'[id].id = id
    /\ users'[id].username = data.username
    /\ users'[id].user_email = data.user_email
    /\ users'[id].user_password = data.user_password
    /\ users'[id].user_pfp = data.user_pfp
    /\ users'[id].user_created = data.user_created
    /\ users'[id].user_updated = now

\* the record update_user(id, data) leaves stored: the timestamps as the columns
\* keep them
Overwritten(id, data) ==
    /\ users'[id].id = id
    /\ users'[id].username = data.username
    /\ users'[id].user_email = data.user_email
    /\ users'[id].user_password = data.user_password
    /\ users'[id].user_pfp = data.user_pfp
    /\ users'[id].user_created = DATETIME(data.user_created)
    /\ users'[id].user_updated = DATETIME(now)

\* C10 as stated: update_user(id, data) called for a stored id succeeds and leaves the
\* record with data's username, user_email, user_password, user_pfp and user_created
\* and with user_updated set to the time of the call.
C10_UpdateOverwrites ==
    [][\A id \in DOMAIN users :
            (Called(PUT_USER)' /\ request'.user_id = id)
                => /\ response'.kind = "return"
                   /\ OverwrittenExactly(id, request'.user)]_vars

\* C10 as amended: it does so, the two timestamps rounded to whole seconds, unless
\* data.user_email is the user_email of another stored user; then the call fails and
\* storage is unchanged.
C10_UpdateOverwritesUnlessEmailTaken ==
    [][\A id \in DOMAIN users :
            (Called(PUT_USER)' /\ request'.user_id = id)
                => IF \E j \in DOMAIN users \ {id} :
                            users[j].user_email = request'.user.user_email
                      THEN response'.kind = "unhandled" /\ UNCHANGED storage
                      ELSE /\ response'.kind = "return"
                           /\ Overwritten(id, request'.user)]_vars

\* an update has overwritten a record created from another body, user_created included
C10_Witness ==
    /\ Called(PUT_USER)
    /\ response.kind = "return"
    /\ users[request.user_id].username = request.user.username
    /\ users[request.user_id].user_created = DATETIME(request.user.user_created)
    /\ users[request.user_id].user_created > users[request.user_id].user_updated

\* C11: delete_user called with an id that is not stored returns the payload
\* {error: 'User not found'} with no exception and leaves every stored record as it
\* was; called with a stored id it returns the success message and removes the record
\* of that id and no other user record.
C11_DeleteRemovesOnlyThatUser ==
    [][/\ (Called(DELETE_USER)' /\ request'.user_id \notin DOMAIN users)
            => /\ response' = Return(NotFoundPayload)
               /\ UNCHANGED storage
       /\ \A id \in DOMAIN users :
            (Called(DELETE_USER)' /\ request'.user_id = id)
                => /\ response' = Return(DeletedPayload)
                   /\ DOMAIN users' = DOMAIN users \ {id}
                   /\ \A j \in DOMAIN users' : users'[j] = users[j]
                   /\ next_id' = next_id]_vars

\* a delete has removed the first user and the second is still stored
C11_Witness ==
    /\ Called(DELETE_USER)
    /\ response = Return(DeletedPayload)
    /\ request.user_id = 1
    /\ DOMAIN users = {2}

\* C12: get_users returns exactly the user records in storage, one entry for each
\* stored user and none for a deleted one, after any creates, updates and deletes.
C12_GetUsersIsStorage ==
    [][Called(GET_USERS)'
         => /\ response'.kind = "return"
            /\ response'.value = {users[j] : j \in DOMAIN users}
            /\ Cardinality(response'.value) = Cardinality(DOMAIN users)
            /\ \A r \in response'.value : r.id \notin DeletedIds
            /\ UNCHANGED storage]_vars

\* get_users has listed the one user stored after a create, a delete and a create
C12_Witness ==
    /\ Called(GET_USERS)
    /\ response.kind = "return"
    /\ response.value = {users[j] : j \in DOMAIN users}
    /\ DOMAIN users = {2}
    /\ DeletedIds = {1}

\* C13: the database connection is open whenever a request is being served, it is
\* closed once the application has stopped, by shutdown or by an exception, and
\* connect is never invoked on an open connection nor close on a closed one.
C13_ConnectionFollowsLifespan ==
    /\ request.route \in Routes
            => /\ lifespan = "yield"
               /\ ~is_closed("lifespan")
               /\ Called(request.route) => ~is_closed(FirstWorker)
    /\ lifespan \in Exits => \A thread \in Threads : is_closed(thread)
    /\ invoked.method = "connect" => invoked.closed
    /\ invoked.method = "close" => ~invoked.closed

\* C14: a successful create_user inserts exactly one record, with the username,
\* user_email, user_password and user_pfp of the request and an id that storage
\* assigns: the id of the request body is ignored and the new id is the id of no
\* stored user, so that ids are unique in every reachable state.
C14_CreateAssignsFreshId ==
    /\ [](\A j \in DOMAIN users : users[j].id = j)
    /\ [][(Called(POST_USER)' /\ response'.kind = "return")
            => /\ response'.value.id = next_id
               /\ response'.value.id \notin DOMAIN users \cup DeletedIds
               /\ DOMAIN users' = DOMAIN users \cup {response'.value.id}
               /\ \A j \in DOMAIN users : users'[j] = users[j]
               /\ users'[response'.value.id].id = response'.value.id
               /\ users'[response'.value.id].username = request'.user.username
               /\ users'[response'.value.id].user_email = request'.user.user_email
               /\ users'[response'.value.id].user_password = request'.user.user_password
               /\ users'[response'.value.id].user_pfp = request'.user.user_pfp]_vars

\* a second user has been created under an id that is not the id of its request body
C14_Witness ==
    /\ Called(POST_USER)
    /\ response.kind = "return"
    /\ response.value.id # request.user.id
    /\ response.value.id \in DOMAIN users
    /\ Cardinality(DOMAIN users) = 2

\* no two rows of the table hold the same values in both columns
PairIsKey(rows, fk1, fk2) ==
    \A r1, r2 \in rows : (r1[fk1] = r2[fk1] /\ r1[fk2] = r2[fk2]) => r1 = r2

\* C15: in each of the junction tables user_groups, recipes_food_types,
\* recipes_ingredients, menus_recipes and menus_groups no two rows hold the same pair
\* of foreign-key values: the two foreign keys act as a composite key.
C15_JunctionPairsUnique ==
    /\ PairIsKey(user_groups, "user_id", "group_id")
    /\ PairIsKey(recipes_food_types, "recipe_id", "food_type_id")
    /\ PairIsKey(recipes_ingredients, "recipe_id", "ingredient_id")
    /\ PairIsKey(menus_recipes, "menu_id", "recipe_id")
    /\ PairIsKey(menus_groups, "menu_id", "group_id")

\* C16: after a successful create_user has returned a record with id i, a get_user(i)
\* issued before any update or delete of i returns a record equal to the returned one
\* in every field: id, username, user_email, user_password, user_pfp, user_created
\* and user_updated.
C16_CreateThenGet ==
    [][\A id \in 1..MaxId :
            (Called(POST_USER)' /\ response'.kind = "return" /\ response'.value.id = id)
                => GetUserOutcome(id)' = Return(response'.value)]_vars

\* C17: update_user(user_id, data) touches only the record whose id is the path
\* parameter user_id: the id inside data is ignored, the record keeps its id, the
\* number of stored users is unchanged and every other user record is unchanged.
C17_UpdateTouchesOnlyThatUser ==
    [][\A id \in PathIds :
            (Called(PUT_USER)' /\ request'.user_id = id)
                => /\ DOMAIN users' = DOMAIN users
                   /\ Cardinality(DOMAIN users') = Cardinality(DOMAIN users)
                   /\ \A j \in DOMAIN users \ {id} : users'[j] = users[j]
                   /\ id \in DOMAIN users => users'[id].id = id
                   /\ UNCHANGED <<next_id, dependents>>]_vars

\* an update has written the record of its path parameter while its body carried
\* the id of the other stored user
C17_Witness ==
    /\ Called(PUT_USER)
    /\ response.kind = "return"
    /\ request.user.id \in DOMAIN users \ {request.user_id}
    /\ users[request.user_id].username = request.user.username
    /\ users[request.user.id].username # request.user.username

\* C18: get_users and get_user never change storage: whatever the state and the
\* argument, the stored records after the call are those before it.
C18_ReadsLeaveStorage ==
    [][(Called(GET_USERS)' \/ Called(GET_USER)')
         => /\ UNCHANGED storage
            /\ response'.kind = "return"]_vars

\* get_user has returned one of two stored users
C18_Witness ==
    /\ Called(GET_USER)
    /\ request.user_id \in DOMAIN users
    /\ response = Return(users[request.user_id])
    /\ Cardinality(DOMAIN users) = 2

\* C19: update_user(id, data) called for a stored id with the user_email of a
\* different stored user does not succeed and leaves storage unchanged: no field of
\* the target record is modified.
C19_UpdateToTakenEmailFails ==
    [][\A id \in DOMAIN users :
            (/\ Called(PUT_USER)'
             /\ request'.user_id = id
             /\ request'.user.user_email \in StoredEmails \ {users[id].user_email})
                => /\ response'.kind # "return"
                   /\ users'[id] = users[id]
                   /\ UNCHANGED storage]_vars

\* an update to the email of the other user has failed on the index and the target
\* record still has its own email, username and password
C19_Witness ==
    /\ Called(PUT_USER)
    /\ response = Unhandled("IntegrityError")
    /\ request.user_id \in DOMAIN users
    /\ request.user.user_email \in StoredEmails \ {users[request.user_id].user_email}
    /\ users[request.user_id].username # request.user.username
    /\ users[request.user_id].user_password # request.user.user_password

\* the stored users with this email
WithEmail(user_email) == {j \in DOMAIN users : users[j].user_email = user_email}

\* C20: however the lookups and the inserts of two concurrent create_user requests
\* with the same user_email interleave, exactly one record with that email is stored
\* and the other request ends with the HTTP 400 of the email check and with no
\* other fault.
C20_ConcurrentCreatesOneWins ==
    \A w1, w2 \in Workers :
        (/\ w1 # w2
         /\ calls[w1].pc = "done"
         /\ calls[w2].pc = "done"
         /\ calls[w1].request.user.user_email = calls[w2].request.user.user_email)
            => /\ Cardinality(WithEmail(calls[w1].request.user.user_email)) = 1
               /\ calls[w1].response.kind # "return" \/ calls[w2].response.kind # "return"
               /\ \A w \in {w1, w2} :
                    calls[w].response.kind # "return" => calls[w].response = EmailInUse

\* this step is the save of an update_user call that returns its success message
UpdateReturns(worker) ==
    /\ calls[worker].pc = "save"
    /\ calls'[worker].pc = "done"
    /\ calls'[worker].response.kind = "return"
    /\ calls'[worker].response.value.message = "User successfully updated"

\* C21: however update_user(id, data) and a concurrent delete_user(id) interleave,
\* when update_user returns 'User successfully updated' the record of that id with
\* data's values has been written to storage by that call, and an update never
\* brings back a user that delete_user has removed.
C21_UpdateReturnsOnlyIfWritten ==
    [][\A worker \in Workers :
            /\ UpdateReturns(worker)
                    => /\ calls[worker].request.user_id \in DOMAIN users'
                       /\ users'[calls[worker].request.user_id].username
                                = calls[worker].request.user.username
                       /\ users'[calls[worker].request.user_id].user_email
                                = calls[worker].request.user.user_email
                       /\ users'[calls[worker].request.user_id].user_password
                                = calls[worker].request.user.user_password
                       /\ users'[calls[worker].request.user_id].user_pfp
                                = calls[worker].request.user.user_pfp
            /\ (calls[worker].pc = "save" /\ calls'[worker].pc = "done")
                    => DOMAIN users' \subseteq DOMAIN users]_vars

\* the statements an operation sends at most: one for list and get, a read and a
\* write for create, update and delete
AtMost(route) == IF route \in {GET_USERS, GET_USER} THEN 1 ELSE 2

\* the call is under way: begun and not ended
Running(call) == call.pc \notin {"idle", "done"}

\* C22: every operation runs to a single terminal outcome per request: list, get,
\* create, update and delete send a bounded number of statements to storage, with
\* no retry and no loop, and end with a returned value or a raised error, after
\* which they send no further statement.
C22_SingleTerminalOutcome ==
    /\ [](\A worker \in Workers :
            calls[worker].pc # "idle"
                => /\ calls[worker].statements <= AtMost(calls[worker].request.route)
                   /\ calls[worker].pc = "done" <=> calls[worker].response # Idle
                   /\ calls[worker].pc = "done"
                        => calls[worker].response.kind
                                \in {"return", "HTTPException", "unhandled"})
    /\ [][/\ \A worker \in Workers :
                calls'[worker] # calls[worker]
                    => IF Running(calls[worker])
                          THEN /\ calls'[worker].request = calls[worker].request
                               /\ calls'[worker].statements = calls[worker].statements + 1
                               /\ calls'[worker].pc # calls[worker].pc
                          ELSE /\ calls'[worker].statements = 0
                               /\ UNCHANGED storage
          /\ storage' # storage
                => \E worker \in Workers :
                        Running(calls[worker]) /\ calls'[worker] # calls[worker]]_vars

\* an update has ended with an error after its two statements and a get has ended
\* with a value after its one
C22_Witness ==
    \E w1, w2 \in Workers :
        /\ calls[w1].pc = "done"
        /\ calls[w1].request.route = PUT_USER
        /\ calls[w1].response.kind = "unhandled"
        /\ calls[w1].statements = 2
        /\ calls[w2].pc = "done"
        /\ calls[w2].request.route = GET_USER
        /\ calls[w2].response.kind = "return"
        /\ calls[w2].statements = 1

=============================================================================
